---- MODULE Spec2Model ----
(***************************************************************************)
(* State-machine model of streamlit_app.py: the cached fetcher             *)
(* load_and_slice_data, the renderer create_map_figure and the main        *)
(* script logic that runs once per user date selection.                    *)
(*                                                                         *)
(* Scaling conventions                                                     *)
(*   - a date is a day ordinal 0..NumDays-1; Year/DayOfYear split it;       *)
(*   - a timestamp is a tick count, TicksPerDay ticks per day;             *)
(*   - a cell value is [nan |-> BOOLEAN, v |-> hundredths of a unit].      *)
(*   - coordinate axes of the remote resource are strictly monotonic       *)
(*     sequences (coordinate variables of a gridded NetCDF resource).      *)
(***************************************************************************)
EXTENDS Integers, Sequences, FiniteSets, TLC

VARIABLES pc, selected_date, cache, opens, ds, air_temp_data, shown,
          render_calls, fetch_calls, body_runs, runs, first_result,
          failed_before, last_outcome, fig, fig_allocated, load_ok

vars == <<pc, selected_date, cache, opens, ds, air_temp_data, shown,
          render_calls, fetch_calls, body_runs, runs, first_result,
          failed_before, last_outcome, fig, fig_allocated, load_ok>>

----------------------------------------------------------------------------
(* Bounds of the model *)

NumDays == 3
DaysPerYear == 2
TicksPerDay == 2
MaxTimes == 2
MaxAxisLen == 3
MaxRuns == 4

(* Program constants: the bounding box of the spatial slice *)
LatHigh == 42
LatLow == 28
LonLow == 120
LonHigh == 135

Dates == 0 .. (NumDays - 1)
Ticks == 0 .. (NumDays * TicksPerDay - 1)

LatPoints == {21, 28, 35, 42, 49}
LonPoints == {110, 120, 135, 140}

----------------------------------------------------------------------------
(* Values *)

None == [kind |-> "None"]
NaN == [nan |-> TRUE, v |-> 0]
Num(x) == [nan |-> FALSE, v |-> x]

Range(s) == {s[i] : i \in 1 .. Len(s)}

IsMonoInc(s) == \A i \in 1 .. (Len(s) - 1) : s[i] < s[i + 1]
IsMonoDec(s) == \A i \in 1 .. (Len(s) - 1) : s[i] > s[i + 1]

SeqsUpTo(S, n) == UNION {[1 .. k -> S] : k \in 0 .. n}
Axes(points) == {s \in SeqsUpTo(points, MaxAxisLen) : IsMonoInc(s) \/ IsMonoDec(s)}

TimeSets == {T \in SUBSET Ticks : Cardinality(T) <= MaxTimes}

(* The value the remote variable holds at (t, la, lo) under a fill pattern *)
SourceCell(pattern, t, la, lo) ==
    CASE pattern = "nan" -> NaN
      [] pattern = "uniform" -> Num(28315)
      [] pattern = "mixed" -> IF la = 35 THEN NaN ELSE Num(27315 + 100 * t + la)
      [] OTHER -> NaN

(* A remote yearly resource: the variable "air" (when present) over (time, lat, lon) *)
Dataset(hasAir, times, lat, lon, pattern) ==
    [has_air |-> hasAir, time |-> times, lat |-> lat, lon |-> lon,
     pattern |-> pattern, units |-> "degK"]

NoDs == [has_air |-> FALSE, time |-> {}, lat |-> <<>>, lon |-> <<>>,
         pattern |-> "none", units |-> "none"]

----------------------------------------------------------------------------
(* load_and_slice_data: the pure part *)

Year(d) == d \div DaysPerYear
DayOfYear(d) == d % DaysPerYear

(* BASE_URL.format(year=year): the resource is keyed by the year alone *)
BASE_URL(year) == <<"air.2m.gauss", year>>
data_url(d) == BASE_URL(Year(d))

(* selected_date.strftime("%Y-%m-%d") *)
date_str(d) == <<Year(d), DayOfYear(d)>>

(* the timestamp a date string denotes when used as a time label: midnight *)
ParseTime(str) == (str[1] * DaysPerYear + str[2]) * TicksPerDay

Max(S) == CHOOSE x \in S : \A y \in S : y <= x
Min(S) == CHOOSE x \in S : \A y \in S : x <= y
Abs(x) == IF x < 0 THEN 0 - x ELSE x

(* variant: forward-fill selection, the timestamps after the target are    *)
(* used only when none precedes it                                        *)
NearestTimePad(times, target) ==
    LET left == {t \in times : t <= target}
        right == {t \in times : t >= target}
    IN IF left = {} THEN Min(right) ELSE Max(left)

(* .sel(time=..., method='nearest') on an increasing time index:           *)
(* pad and backfill candidates, the left one only when strictly closer.    *)
NearestTime(times, target) ==
    LET left == {t \in times : t <= target}
        right == {t \in times : t >= target}
    IN IF right = {} THEN Max(left)
       ELSE IF left = {} THEN Min(right)
       ELSE IF Abs(target - Max(left)) < Abs(Min(right) - target)
            THEN Max(left) ELSE Min(right)

(* variant: the stop label of the slice is ignored *)
LabelSliceOpenEnded(axis, start, stop) ==
    LET inc(x) == start <= x
        dec(x) == start >= x
    IN IF IsMonoInc(axis) THEN SelectSeq(axis, inc) ELSE SelectSeq(axis, dec)

(* .sel(dim=slice(start, stop)) on a monotonic index: label based, both    *)
(* ends inclusive, in index order; an index of length <= 1 is increasing.  *)
LabelSlice(axis, start, stop) ==
    LET inc(x) == start <= x /\ x <= stop
        dec(x) == start >= x /\ x >= stop
    IN IF IsMonoInc(axis) THEN SelectSeq(axis, inc) ELSE SelectSeq(axis, dec)

(* .squeeze(): the dimensions of size 1 are dropped *)
Squeeze(dims, sizes) ==
    LET keep(n) == sizes[n] # 1 IN SelectSeq(dims, keep)

GridSize(g) == Len(g.lat) * Len(g.lon)

(* np.all(np.isnan(da.values)) *)
AllNaN(values) == \A p \in DOMAIN values : values[p].nan

(* lines 61-66: the array selected from the open resource *)
SlicedGrid(dset, d) ==
    LET t == NearestTime(dset.time, ParseTime(date_str(d)))
        la == LabelSlice(dset.lat, LatHigh, LatLow)
        lo == LabelSlice(dset.lon, LonLow, LonHigh)
        sizes == [n \in {"lat", "lon"} |-> IF n = "lat" THEN Len(la) ELSE Len(lo)]
    IN [kind |-> "grid", time |-> t, lat |-> la, lon |-> lo,
        dims |-> Squeeze(<<"lat", "lon">>, sizes),
        values |-> [p \in Range(la) \X Range(lo) |->
                       SourceCell(dset.pattern, t, p[1], p[2])],
        units |-> dset.units]

(* lines 60-75: variable lookup, time selection, spatial slice, squeeze,   *)
(* load, missing-data check.  "raise" stands for an exception in the try.  *)
SelectSliceLoad(dset, d, loadOk) ==
    IF ~dset.has_air THEN [kind |-> "raise"]
    ELSE IF dset.time = {} THEN [kind |-> "raise"]
    ELSE IF ~loadOk THEN [kind |-> "raise"]
    ELSE IF AllNaN(SlicedGrid(dset, d).values) THEN None
    ELSE SlicedGrid(dset, d)

(* variant: the handler shows the error without the remediation hint *)
FailureMessagesErrorOnly == {"error"}

(* the except handler of lines 77-80: st.error and st.info *)
FailureMessages == {"error", "info"}

----------------------------------------------------------------------------
(* create_map_figure (lines 83-125).  plotOk: the plotting calls did not   *)
(* raise (they run only after the figure has been allocated).              *)

(* variant: the guard tests only for the absent grid *)
create_map_figure_no_size_check(data_array, date, plotOk) ==
    IF data_array = None
    THEN [kind |-> "None", allocated |-> FALSE]
    ELSE IF ~plotOk \/ Len(data_array.dims) # 2
    THEN [kind |-> "raise", allocated |-> TRUE]
    ELSE [kind |-> "fig", allocated |-> TRUE, grid |-> data_array,
          norm |-> <<0 - 5, 10, 30>>, label |-> "degC", title |-> date_str(date)]

create_map_figure(data_array, date, plotOk) ==
    IF data_array = None \/ GridSize(data_array) = 0
    THEN [kind |-> "None", allocated |-> FALSE]
    ELSE IF ~plotOk \/ Len(data_array.dims) # 2
    THEN [kind |-> "raise", allocated |-> TRUE]
    ELSE [kind |-> "fig", allocated |-> TRUE, grid |-> data_array,
          norm |-> <<0 - 5, 10, 30>>, label |-> "degC", title |-> date_str(date)]

----------------------------------------------------------------------------
(* The st.cache_data layer around load_and_slice_data (line 43) *)

NoEntry == [kind |-> "absent"]
Entry(value, msgs) == [kind |-> "entry", value |-> value, msgs |-> msgs]

(* variant: the cache is keyed by the year of the date *)
CacheKeyYear(d) == Year(d) * DaysPerYear

(* the cache key is the hash of the argument: the exact date *)
CacheKey(d) == d

(* variant: the fallback open is retried after it failed *)
AfterOpenFailureRetry(engine) == "open_pydap"

(* what the script does after an open attempt failed (lines 54-58, 77) *)
AfterOpenFailure(engine) == IF engine = "default" THEN "open_pydap" ELSE "failed"

(* variant: the rendering branch is taken whatever the fetch returned *)
ShouldRenderAlways(data) == TRUE

(* the guard of the rendering branch of the main logic (line 145) *)
ShouldRender(data) == data # None /\ GridSize(data) > 0

----------------------------------------------------------------------------
(* What the remote service may hold behind a yearly URL *)

YearTicks(url) == {t \in Ticks : t \div (DaysPerYear * TicksPerDay) = url[2]}
YearMidnights(url) == {t \in YearTicks(url) : t % TicksPerDay = 0}

RemoteContents(url) ==
    { Dataset(TRUE, YearMidnights(url), <<49, 42, 35, 28, 21>>, <<110, 120, 135, 140>>, "mixed"),
      Dataset(TRUE, YearTicks(url), <<49, 42, 35, 28, 21>>, <<110, 120, 135, 140>>, "nan"),
      Dataset(TRUE, YearMidnights(url), <<49, 35, 21>>, <<120, 135>>, "uniform"),
      Dataset(TRUE, YearMidnights(url), <<49, 42, 28>>, <<120, 135>>, "uniform"),
      Dataset(TRUE, YearMidnights(url), <<21, 28, 35, 42>>, <<120, 135>>, "uniform"),
      Dataset(FALSE, YearMidnights(url), <<42, 28>>, <<120, 135>>, "uniform") }

----------------------------------------------------------------------------
(* The session: one script run per date selection *)

Init ==
    /\ pc = "idle"
    /\ selected_date = 0
    /\ cache = [d \in Dates |-> NoEntry]
    /\ opens = <<>>
    /\ ds = NoDs
    /\ air_temp_data = None
    /\ shown = {}
    /\ render_calls = <<>>
    /\ fetch_calls = 0
    /\ body_runs = [d \in Dates |-> 0]
    /\ runs = 0
    /\ first_result = [d \in Dates |-> NoEntry]
    /\ failed_before = [d \in Dates |-> FALSE]
    /\ last_outcome = "none"
    /\ fig = None
    /\ fig_allocated = FALSE
    /\ load_ok = TRUE

(* load_and_slice_data returns value with the messages msgs recorded:      *)
(* the cache stores the return value, whatever it is.                      *)
Return(value, msgs, outcome) ==
    /\ air_temp_data' = value
    /\ shown' = shown \cup msgs
    /\ cache' = [cache EXCEPT ![CacheKey(selected_date)] = Entry(value, msgs)]
    /\ first_result' = IF first_result[selected_date] = NoEntry
                       THEN [first_result EXCEPT ![selected_date] = value]
                       ELSE first_result
    /\ failed_before' = IF outcome = "fail"
                        THEN [failed_before EXCEPT ![selected_date] = TRUE]
                        ELSE failed_before
    /\ last_outcome' = outcome
    /\ pc' = "main"

(* the except handler: st.error, st.info, return None *)
Fail == Return(None, FailureMessages, "fail")

(* The user picks a date; the script reruns from the top and calls the     *)
(* cached load_and_slice_data (lines 132-143).                             *)
SelectDate(d) ==
    /\ pc = "idle"
    /\ runs < MaxRuns
    /\ runs' = runs + 1
    /\ selected_date' = d
    /\ opens' = <<>>
    /\ render_calls' = <<>>
    /\ fetch_calls' = 1
    /\ ds' = NoDs
    /\ fig' = None
    /\ fig_allocated' = FALSE
    /\ IF cache[CacheKey(d)] # NoEntry
       THEN /\ air_temp_data' = cache[CacheKey(d)].value
            /\ shown' = cache[CacheKey(d)].msgs
            /\ last_outcome' = "hit"
            /\ pc' = "main"
            /\ UNCHANGED body_runs
       ELSE /\ air_temp_data' = None
            /\ shown' = {}
            /\ last_outcome' = "none"
            /\ pc' = "open_default"
            /\ body_runs' = [body_runs EXCEPT ![d] = @ + 1]
    /\ UNCHANGED <<cache, first_result, failed_before, load_ok>>

(* xr.open_dataset(data_url) or xr.open_dataset(data_url, engine="pydap") *)
Open(engine, ok, dset) ==
    /\ opens' = Append(opens, [engine |-> engine, ok |-> ok])
    /\ IF ok
       THEN /\ ds' = dset
            /\ pc' = "select"
            /\ UNCHANGED <<air_temp_data, shown, cache, first_result,
                           failed_before, last_outcome>>
       ELSE /\ ds' = NoDs
            /\ IF AfterOpenFailure(engine) = "failed"
               THEN Fail
               ELSE /\ pc' = AfterOpenFailure(engine)
                    /\ UNCHANGED <<air_temp_data, shown, cache, first_result,
                                   failed_before, last_outcome>>
    /\ UNCHANGED <<selected_date, render_calls, fetch_calls, body_runs, runs,
                   fig, fig_allocated, load_ok>>

OpenDefault ==
    /\ pc = "open_default"
    /\ \E ok \in BOOLEAN : \E dset \in RemoteContents(data_url(selected_date)) :
          Open("default", ok, dset)

OpenPydap ==
    /\ pc = "open_pydap"
    /\ \E ok \in BOOLEAN : \E dset \in RemoteContents(data_url(selected_date)) :
          Open("pydap", ok, dset)

(* lines 60-80 once the resource is open *)
SelectAndLoad ==
    /\ pc = "select"
    /\ \E loadOk \in BOOLEAN :
          LET r == SelectSliceLoad(ds, selected_date, loadOk)
          IN /\ load_ok' = loadOk
             /\ IF r.kind = "raise" THEN Fail
                ELSE IF r = None THEN Return(None, {}, "nan")
                ELSE Return(r, {}, "grid")
    /\ UNCHANGED <<selected_date, opens, ds, render_calls, fetch_calls,
                   body_runs, runs, fig, fig_allocated>>

(* the main logic after the fetch returned (lines 145-162) *)
Main ==
    /\ pc = "main"
    /\ pc' = "idle"
    /\ IF ShouldRender(air_temp_data)
       THEN \E plotOk \in BOOLEAN :
              LET r == create_map_figure(air_temp_data, selected_date, plotOk)
              IN /\ render_calls' = Append(render_calls,
                                      [grid |-> air_temp_data, date |-> selected_date])
                 /\ fig' = r
                 /\ fig_allocated' = r.allocated
                 /\ shown' = shown \cup {"subheader"} \cup
                       (CASE r.kind = "raise" -> {"exception"}
                          [] r.kind = "fig" -> {"pyplot", "preview"}
                          [] OTHER -> {"preview"})
       ELSE /\ shown' = IF air_temp_data # None
                        THEN shown \cup {"warning"} ELSE shown
            /\ UNCHANGED <<render_calls, fig, fig_allocated>>
    /\ UNCHANGED <<selected_date, cache, opens, ds, air_temp_data, fetch_calls,
                   body_runs, runs, first_result, failed_before, last_outcome,
                   load_ok>>

Next ==
    \/ \E d \in Dates : SelectDate(d)
    \/ OpenDefault
    \/ OpenPydap
    \/ SelectAndLoad
    \/ Main

Spec == Init /\ [][Next]_vars

----------------------------------------------------------------------------
(* load_and_slice_data applied to one opened resource, for every resource  *)
(* and date within the bounds                                              *)

FetchDatasets ==
    {Dataset(TRUE, T, la, lo, p) : T \in TimeSets, la \in Axes(LatPoints),
                                   lo \in Axes(LonPoints),
                                   p \in {"nan", "uniform", "mixed"}}
    \cup {Dataset(FALSE, {0}, <<42, 28>>, <<120, 135>>, "uniform")}

InitFetch ==
    /\ pc = "fetch_in"
    /\ selected_date \in Dates
    /\ ds \in FetchDatasets
    /\ cache = [d \in Dates |-> NoEntry]
    /\ opens = <<>>
    /\ air_temp_data = None
    /\ shown = {}
    /\ render_calls = <<>>
    /\ fetch_calls = 0
    /\ body_runs = [d \in Dates |-> 0]
    /\ runs = 0
    /\ first_result = [d \in Dates |-> NoEntry]
    /\ failed_before = [d \in Dates |-> FALSE]
    /\ last_outcome = "none"
    /\ fig = None
    /\ fig_allocated = FALSE
    /\ load_ok = TRUE

FetchCall ==
    /\ pc = "fetch_in"
    /\ pc' = "fetch_out"
    /\ \E loadOk \in BOOLEAN :
          LET r == SelectSliceLoad(ds, selected_date, loadOk)
          IN /\ load_ok' = loadOk
             /\ air_temp_data' = IF r.kind = "raise" THEN None ELSE r
             /\ shown' = IF r.kind = "raise" THEN FailureMessages ELSE {}
             /\ last_outcome' = CASE r.kind = "raise" -> "fail"
                                  [] r = None -> "nan"
                                  [] OTHER -> "grid"
    /\ fetch_calls' = 1
    /\ UNCHANGED <<selected_date, cache, opens, ds, render_calls, body_runs,
                   runs, first_result, failed_before, fig, fig_allocated>>

NextFetch == FetchCall

SpecFetch == InitFetch /\ [][NextFetch]_vars

----------------------------------------------------------------------------
(* create_map_figure applied to every argument within the bounds, the      *)
(* absent grid and empty grids included                                    *)

RenderInputs ==
    {None} \cup {SlicedGrid(dset, d) : dset \in {x \in FetchDatasets : x.has_air /\ x.time # {}},
                                       d \in Dates}

InitRender ==
    /\ pc = "render_in"
    /\ selected_date \in Dates
    /\ air_temp_data \in RenderInputs
    /\ ds = NoDs
    /\ cache = [d \in Dates |-> NoEntry]
    /\ opens = <<>>
    /\ shown = {}
    /\ render_calls = <<>>
    /\ fetch_calls = 0
    /\ body_runs = [d \in Dates |-> 0]
    /\ runs = 0
    /\ first_result = [d \in Dates |-> NoEntry]
    /\ failed_before = [d \in Dates |-> FALSE]
    /\ last_outcome = "none"
    /\ fig = None
    /\ fig_allocated = FALSE
    /\ load_ok = TRUE

RenderCall ==
    /\ pc = "render_in"
    /\ pc' = "render_out"
    /\ \E plotOk \in BOOLEAN :
          LET r == create_map_figure(air_temp_data, selected_date, plotOk)
          IN /\ fig' = r
             /\ fig_allocated' = r.allocated
    /\ render_calls' = <<[grid |-> air_temp_data, date |-> selected_date]>>
    /\ UNCHANGED <<selected_date, cache, opens, ds, air_temp_data, shown,
                   fetch_calls, body_runs, runs, first_result, failed_before,
                   last_outcome, load_ok>>

NextRender == RenderCall

SpecRender == InitRender /\ [][NextRender]_vars

----------------------------------------------------------------------------
(* Properties *)

Finished == pc = "idle" /\ runs > 0

(* C1: within one call of load_and_slice_data the first open attempt uses  *)
(* the default engine, a second attempt exists only after the first        *)
(* failed and uses pydap, there is never a third, and when both failed     *)
(* the call has ended in the fetch failure.                                *)
C1_OpenFallbackOnce ==
    /\ Len(opens) <= 2
    /\ Len(opens) >= 1 => opens[1].engine = "default"
    /\ Len(opens) = 2 => opens[2].engine = "pydap" /\ ~opens[1].ok
    /\ pc = "open_pydap" => Len(opens) = 1 /\ ~opens[1].ok
    /\ (Len(opens) = 2 /\ ~opens[2].ok) =>
          /\ pc \in {"main", "idle"}
          /\ last_outcome = "fail"
          /\ air_temp_data = None

C1_Witness ==
    /\ Finished
    /\ Len(opens) = 2
    /\ ~opens[2].ok
    /\ last_outcome = "fail"

(* C2 (as stated): an interaction whose fetch found only missing values    *)
(* ends with the no-data warning shown and without the error message.      *)
C2_NoDataWarningShown ==
    (Finished /\ last_outcome = "nan") =>
        ("warning" \in shown /\ "error" \notin shown)

DimSize(g, n) == IF n = "lat" THEN Len(g.lat) ELSE Len(g.lon)

(* C3: the fetch returns None or a grid whose latitudes lie in [28,42],    *)
(* whose longitudes lie in [120,135] and none of whose dimensions has      *)
(* size 1.                                                                 *)
C3_SliceWithinBox ==
    pc = "fetch_out" =>
        \/ air_temp_data = None
        \/ /\ \A i \in 1 .. Len(air_temp_data.lat) :
                 28 <= air_temp_data.lat[i] /\ air_temp_data.lat[i] <= 42
           /\ \A j \in 1 .. Len(air_temp_data.lon) :
                 120 <= air_temp_data.lon[j] /\ air_temp_data.lon[j] <= 135
           /\ \A k \in 1 .. Len(air_temp_data.dims) :
                 DimSize(air_temp_data, air_temp_data.dims[k]) # 1

C3_Witness ==
    /\ pc = "fetch_out"
    /\ air_temp_data # None
    /\ Len(air_temp_data.lat) = 1
    /\ air_temp_data.dims = <<"lon">>
    /\ \E i \in 1 .. Len(ds.lat) : ds.lat[i] > 42
    /\ \E i \in 1 .. Len(ds.lat) : ds.lat[i] < 28
    /\ \E j \in 1 .. Len(ds.lon) : ds.lon[j] > 135

(* C4: called with the absent grid or a grid of size 0, create_map_figure  *)
(* returns None and allocates no figure.                                   *)
C4_RenderNothingForEmpty ==
    (pc = "render_out" /\ (air_temp_data = None \/ GridSize(air_temp_data) = 0)) =>
        (fig.kind = "None" /\ ~fig_allocated)

C4_Witness ==
    /\ pc = "render_out"
    /\ air_temp_data # None
    /\ GridSize(air_temp_data) = 0
    /\ fig.kind = "None"

(* C5 (as stated): the grid the fetch returns holds the source value minus *)
(* 273.15 at every cell and carries the unit tag degC.                     *)
C5_CelsiusConversion ==
    (pc = "fetch_out" /\ air_temp_data # None) =>
        /\ air_temp_data.units = "degC"
        /\ \A p \in DOMAIN air_temp_data.values :
              ~air_temp_data.values[p].nan =>
                 air_temp_data.values[p].v =
                    SourceCell(ds.pattern, air_temp_data.time, p[1], p[2]).v - 27315

(* C6: when the opened resource has the variable and at least one          *)
(* timestamp and the load succeeds, the fetch does not fail, and the grid  *)
(* it returns is the slice of a timestamp of the resource to which no      *)
(* other timestamp is closer to midnight of the requested date.            *)
C6_NearestTimeSelected ==
    (pc = "fetch_out" /\ ds.has_air /\ ds.time # {} /\ load_ok) =>
        /\ last_outcome # "fail"
        /\ air_temp_data # None =>
              /\ air_temp_data.time \in ds.time
              /\ \A u \in ds.time :
                    Abs(air_temp_data.time - selected_date * TicksPerDay)
                       <= Abs(u - selected_date * TicksPerDay)

C6_Witness ==
    /\ pc = "fetch_out"
    /\ air_temp_data # None
    /\ (selected_date * TicksPerDay) \notin ds.time
    /\ \E u \in ds.time : u < air_temp_data.time
    /\ air_temp_data.time > selected_date * TicksPerDay

(* C7: the body of load_and_slice_data runs at most once per date, and     *)
(* every fetch of a date yields the result of the first fetch of that      *)
(* same date.                                                              *)
C7_MemoizedPerDate ==
    /\ \A d \in Dates : body_runs[d] <= 1
    /\ (pc \in {"main", "idle"} /\ runs > 0) =>
          air_temp_data = first_result[selected_date]

C7_Witness ==
    /\ Finished
    /\ last_outcome = "hit"
    /\ opens = <<>>
    /\ \E d \in Dates : /\ d # selected_date
                        /\ cache[d] # NoEntry
                        /\ cache[d].value # air_temp_data

(* C8: an interaction in which the fetch raised ends with the error and    *)
(* the hint shown, no grid returned, the renderer not called, and neither  *)
(* map, subheader, preview nor no-data warning shown.                      *)
C8_FetchFailureHalts ==
    (pc \in {"main", "idle"} /\ last_outcome = "fail") =>
        /\ {"error", "info"} \subseteq shown
        /\ air_temp_data = None
        /\ render_calls = <<>>
        /\ shown \cap {"pyplot", "preview", "warning", "subheader"} = {}
        /\ fig = None

C8_Witness ==
    /\ Finished
    /\ last_outcome = "fail"
    /\ Len(opens) = 2
    /\ opens[2].ok
    /\ ds.has_air
    /\ ~load_ok

(* C9 (as stated): a date whose earlier fetch failed is fetched anew when  *)
(* it is selected again, and the cache holds only grids.                   *)
C9_FailureNotCached ==
    /\ (pc \in {"main", "idle"} /\ runs > 0 /\ failed_before[selected_date]
          /\ last_outcome = "hit") => Len(opens) > 0
    /\ \A d \in Dates : cache[d] # NoEntry => cache[d].value # None

(* C10: the renderer is called at most once per date selection, after the  *)
(* fetch of the selected date returned, with the grid that fetch returned, *)
(* which is not None and has size > 0; the image is shown only when the    *)
(* renderer returned a figure; the fetch is called at most once.           *)
C10_FetchThenRender ==
    /\ fetch_calls <= 1
    /\ Len(render_calls) <= 1
    /\ \A i \in 1 .. Len(render_calls) :
          /\ pc = "idle"
          /\ last_outcome \in {"grid", "hit"}
          /\ render_calls[i].date = selected_date
          /\ render_calls[i].grid = air_temp_data
          /\ render_calls[i].grid = cache[selected_date].value
          /\ render_calls[i].grid # None
          /\ GridSize(render_calls[i].grid) > 0
    /\ "pyplot" \in shown => (Len(render_calls) = 1 /\ fig.kind = "fig")

C10_Witness ==
    /\ Finished
    /\ "pyplot" \in shown
    /\ Len(render_calls) = 1
    /\ last_outcome = "grid"

====
